---------------------------- MODULE Spec2Model ----------------------------
(***************************************************************************)
(* A model of the YouTube transcript extractor worker (src/src/index.js):  *)
(* the two POST handlers (/languages, /transcript), the retry executor,    *)
(* caption discovery, the transcript fetch and the cache-aside use of the  *)
(* KV store, with the detached cache write.                                *)
(*                                                                         *)
(* Text that the code inspects character by character (the identifier or   *)
(* URL of a request, the text of a caption run) is a sequence of           *)
(* one-character strings; text that the code only concatenates or compares *)
(* (language, kind, cache keys, messages) is a string.                     *)
(***************************************************************************)
EXTENDS Integers, Sequences, FiniteSets, TLC

(***************************************************************************)
(* Program constants.                                                      *)
(***************************************************************************)
DEFAULT_TRANSCRIPT_LANGUAGE == "en"
DEFAULT_TRANSCRIPT_KIND == "asr"
CACHE_TTL_SECONDS == 3600
MAX_RETRIES == 3
INITIAL_RETRY_DELAY == 1000

(***************************************************************************)
(* Bounds of the model.                                                    *)
(***************************************************************************)
\* requests in flight at the same time
MaxRequests == 1

(***************************************************************************)
(* Character-level text.                                                   *)
(***************************************************************************)
IdChars ==
  {"a","b","c","d","e","f","g","h","i","j","k","l","m",
   "n","o","p","q","r","s","t","u","v","w","x","y","z",
   "A","B","C","D","E","F","G","H","I","J","K","L","M",
   "N","O","P","Q","R","S","T","U","V","W","X","Y","Z",
   "0","1","2","3","4","5","6","7","8","9","_","-"}

WhiteSpace == {" ", "\t", "\n", "\r"}

RECURSIVE Str(_)
Str(s) == IF s = <<>> THEN "" ELSE Head(s) \o Str(Tail(s))

\* s has the characters of lit at positions i .. i+Len(lit)-1
LitAt(s, i, lit) ==
  /\ i >= 1
  /\ i + Len(lit) - 1 <= Len(s)
  /\ \A k \in 1..Len(lit) : s[i + k - 1] = lit[k]

\* an identifier pattern of ten characters
IdAtShort(s, i) ==
  /\ i >= 1
  /\ i + 9 <= Len(s)
  /\ \A k \in 0..9 : s[i + k] \in IdChars

\* [a-zA-Z0-9_-]{11} at positions i .. i+10
IdAt(s, i) ==
  /\ i >= 1
  /\ i + 10 <= Len(s)
  /\ \A k \in 0..10 : s[i + k] \in IdChars

NonSpaceRun(s, a, b) == \A k \in a..b : s[k] \notin WhiteSpace

Min(S) == CHOOSE x \in S : \A y \in S : x <= y
Max(S) == CHOOSE x \in S : \A y \in S : x >= y

YoutubeCom == <<"y","o","u","t","u","b","e",".","c","o","m","/">>
YoutuBe == <<"y","o","u","t","u",".","b","e","/">>
ShortsPath == <<"y","o","u","t","u","b","e",".","c","o","m","/","s","h","o","r","t","s","/">>

(***************************************************************************)
(* The first pattern of extractVideoId, tried at start position i: the     *)
(* position of the captured identifier, or 0 when the pattern does not     *)
(* match there.  The alternatives are tried in the order of the regular    *)
(* expression, each with its own greedy or lazy choice.                    *)
(***************************************************************************)
\* [^\/\n\s]+\/\S+\/ from j: the first part runs to the next "/", the
\* greedy \S+ ends at the last "/" that an identifier follows
PathAlt(s, j) ==
  LET slashes == {p \in j+1..Len(s) :
                    /\ s[p] = "/"
                    /\ \A k \in j..p-1 : s[k] # "/" /\ s[k] \notin WhiteSpace}
  IN  IF slashes = {} THEN 0
      ELSE LET p == Min(slashes)
               qs == {q \in p+2..Len(s) :
                        /\ s[q] = "/"
                        /\ NonSpaceRun(s, p+1, q-1)
                        /\ IdAt(s, q+1)}
           IN  IF qs = {} THEN 0 ELSE Max(qs) + 1

\* (?:v|e(?:mbed)?)\/ from j
EmbedAlt(s, j) ==
  IF LitAt(s, j, <<"v","/">>) /\ IdAt(s, j+2) THEN j+2
  ELSE IF LitAt(s, j, <<"e","m","b","e","d","/">>) /\ IdAt(s, j+6) THEN j+6
  ELSE IF LitAt(s, j, <<"e","/">>) /\ IdAt(s, j+2) THEN j+2
  ELSE 0

\* \S*?[?&]v= from j: the lazy \S*? stops at the first place that works
QueryAlt(s, j) ==
  LET ns == {n \in j..Len(s) :
               /\ NonSpaceRun(s, j, n-1)
               /\ s[n] \in {"?", "&"}
               /\ LitAt(s, n+1, <<"v","=">>)
               /\ IdAt(s, n+3)}
  IN  IF ns = {} THEN 0 ELSE Min(ns) + 3

Pattern1At(s, i) ==
  IF LitAt(s, i, YoutubeCom) /\
       (PathAlt(s, i+12) # 0 \/ EmbedAlt(s, i+12) # 0 \/ QueryAlt(s, i+12) # 0)
  THEN IF PathAlt(s, i+12) # 0 THEN PathAlt(s, i+12)
       ELSE IF EmbedAlt(s, i+12) # 0 THEN EmbedAlt(s, i+12)
       ELSE QueryAlt(s, i+12)
  ELSE IF LitAt(s, i, YoutuBe) /\ IdAt(s, i+9) THEN i+9
  ELSE 0

Pattern2At(s, i) ==
  IF LitAt(s, i, ShortsPath) /\ IdAt(s, i+19) THEN i+19 ELSE 0

(***************************************************************************)
(* extractVideoId: the identifier as a sequence of characters, or the      *)
(* empty sequence for null (an identifier is never empty).                 *)
(***************************************************************************)
NoId == <<>>

extractVideoId(url) ==
  IF url = <<>> THEN NoId
  ELSE IF Len(url) = 11 /\ IdAt(url, 1) THEN url
  ELSE LET m1 == {i \in 1..Len(url) : Pattern1At(url, i) # 0}
           m2 == {i \in 1..Len(url) : Pattern2At(url, i) # 0}
       IN  IF m1 # {} THEN SubSeq(url, Pattern1At(url, Min(m1)), Pattern1At(url, Min(m1)) + 10)
           ELSE IF m2 # {} THEN SubSeq(url, Pattern2At(url, Min(m2)), Pattern2At(url, Min(m2)) + 10)
           ELSE NoId

(***************************************************************************)
(* JavaScript values that travel through the handlers: undefined, null,    *)
(* an array of LanguageOption, a TranscriptResult object.  Every value     *)
(* carries its type, so that values of different types compare unequal.    *)
(***************************************************************************)
Undefined == [type |-> "undefined"]
JsNull == [type |-> "null"]
Array(items) == [type |-> "array", items |-> items]

\* if (cachedData): arrays and objects are truthy, undefined and null are not
Truthy(v) == v.type \notin {"undefined", "null"}

(***************************************************************************)
(* The retry executor's decisions (retryWithBackoff).                      *)
(***************************************************************************)
RECURSIVE Pow2(_)
Pow2(n) == IF n = 0 THEN 1 ELSE 2 * Pow2(n - 1)

\* a backoff that grows by a fixed step instead of doubling
RetryDelayLinear(attempt) == INITIAL_RETRY_DELAY * (attempt + 1)

\* const delay = initialDelay * Math.pow(2, attempt)
RetryDelay(attempt) == INITIAL_RETRY_DELAY * Pow2(attempt)

\* a loop that gives up one attempt early
LastAttemptEarly(attempt) == attempt >= MAX_RETRIES - 1

\* if (attempt === maxRetries) break;  -- otherwise sleep and go round again
LastAttempt(attempt) == attempt = MAX_RETRIES

(***************************************************************************)
(* Caption discovery: one invocation of the operation that                 *)
(* getLangOptionsWithLink hands to retryWithBackoff, on the page response  *)
(* the fetch produced.                                                     *)
(*   arrived  the fetch resolved (FALSE: it rejected, a network failure)   *)
(*   ok       videoPageResponse.ok                                         *)
(*   captions "absent": the markup has no '"captions":' marker;            *)
(*            "malformed": the fragment after it is not JSON;              *)
(*            "parsed": it is JSON                                         *)
(*   hasTracks  the parsed fragment has                                    *)
(*            playerCaptionsTracklistRenderer.captionTracks                *)
(*   tracks   the caption tracks: name.simpleText, languageCode, kind      *)
(*            ("" when the track has no kind)                              *)
(***************************************************************************)
Includes(s, lit) == \E i \in 1..Len(s) : LitAt(s, i, lit)

English == <<"E","n","g","l","i","s","h">>

\* a second comparator that sends exact matches to the end
EqualsFirstInverted(x, y) == IF x = English THEN 1 ELSE IF y = English THEN -1 ELSE 0

\* the two comparators handed to Array.prototype.sort
ContainsFirst(x, y) == IF Includes(x, English) THEN -1 ELSE IF Includes(y, English) THEN 1 ELSE 0
EqualsFirst(x, y) == IF x = English THEN -1 ELSE IF y = English THEN 1 ELSE 0
Compare(pass, x, y) == IF pass = 1 THEN ContainsFirst(x, y) ELSE EqualsFirst(x, y)

(***************************************************************************)
(* Array.prototype.sort as the worker's engine (V8) runs it on an array    *)
(* shorter than 64 elements: the initial run is found (and reversed when   *)
(* it descends), the remaining elements are placed by binary insertion.    *)
(* The comparators above are not consistent orders, so the result is what  *)
(* this procedure makes of them.                                           *)
(***************************************************************************)
RECURSIVE RunLength(_, _, _, _)
RunLength(a, pass, desc, n) ==
  IF n >= Len(a) THEN n
  ELSE LET order == Compare(pass, a[n + 1], a[n])
       IN  IF (desc /\ order >= 0) \/ (~desc /\ order < 0) THEN n
           ELSE RunLength(a, pass, desc, n + 1)

Reverse(a) == [i \in 1..Len(a) |-> a[Len(a) + 1 - i]]

RECURSIVE InsertionPoint(_, _, _, _, _)
InsertionPoint(a, pass, pivot, left, right) ==
  IF left >= right THEN left
  ELSE LET mid == left + ((right - left) \div 2)
       IN  IF Compare(pass, pivot, a[mid]) < 0
           THEN InsertionPoint(a, pass, pivot, left, mid)
           ELSE InsertionPoint(a, pass, pivot, mid + 1, right)

RECURSIVE BinaryInsertionSort(_, _, _)
BinaryInsertionSort(a, pass, start) ==
  IF start > Len(a) THEN a
  ELSE LET pivot == a[start]
           left == InsertionPoint(a, pass, pivot, 1, start)
           moved == SubSeq(a, 1, left - 1) \o <<pivot>> \o SubSeq(a, left, start - 1)
                      \o SubSeq(a, start + 1, Len(a))
       IN  BinaryInsertionSort(moved, pass, start + 1)

SortBy(a, pass) ==
  IF Len(a) < 2 THEN a
  ELSE LET desc == Compare(pass, a[2], a[1]) < 0
           run == RunLength(a, pass, desc, 2)
           made == IF desc THEN Reverse(SubSeq(a, 1, run)) \o SubSeq(a, run + 1, Len(a))
                   ELSE a
       IN  BinaryInsertionSort(made, pass, run + 1)

\* captionTracks.find(i => i.name.simpleText === langName)
FindTrack(tracks, name) ==
  tracks[Min({i \in 1..Len(tracks) : tracks[i].name = name})]

\* the LanguageOption of one sorted name
LanguageOption(tracks, name) ==
  LET captionTrack == FindTrack(tracks, name)
  IN  [language |-> name,
       languageCode |-> captionTrack.languageCode,
       kind |-> IF captionTrack.kind = "" THEN "manual" ELSE captionTrack.kind]

LanguageOptions(tracks) ==
  LET names == [i \in 1..Len(tracks) |-> tracks[i].name]
      sorted == SortBy(SortBy(names, 1), 2)
  IN  [i \in 1..Len(sorted) |-> LanguageOption(tracks, sorted[i])]

Returned(v) == [threw |-> FALSE, error |-> "", status |-> 0, value |-> v]
Threw(msg) == [threw |-> TRUE, error |-> msg, status |-> 0, value |-> Undefined]

FetchFailed == "fetch failed"
PageStatusError == "Failed to fetch YouTube page"
CaptionsParseError == "Failed to parse captions JSON"
TracksMissingError == "Caption tracks not found in response"

\* an operation that treats the missing captions marker as a failure
DiscoveryAttemptStrict(page) ==
  IF ~page.arrived THEN Threw(FetchFailed)
  ELSE IF ~page.ok THEN Threw(PageStatusError)
  ELSE IF page.captions = "absent" THEN Threw(TracksMissingError)
  ELSE IF page.captions = "malformed" THEN Threw(CaptionsParseError)
  ELSE IF ~page.hasTracks THEN Threw(TracksMissingError)
  ELSE Returned(Array(LanguageOptions(page.tracks)))

\* an operation that treats a missing track list as "no captions"
DiscoveryAttemptLenient(page) ==
  IF ~page.arrived THEN Threw(FetchFailed)
  ELSE IF ~page.ok THEN Threw(PageStatusError)
  ELSE IF page.captions = "absent" THEN Returned(Undefined)
  ELSE IF page.captions = "malformed" THEN Threw(CaptionsParseError)
  ELSE IF ~page.hasTracks THEN Returned(Undefined)
  ELSE Returned(Array(LanguageOptions(page.tracks)))

DiscoveryAttempt(page) ==
  IF ~page.arrived THEN Threw(FetchFailed)
  ELSE IF ~page.ok THEN Threw(PageStatusError)
  ELSE IF page.captions = "absent" THEN Returned(Undefined)
  ELSE IF page.captions = "malformed" THEN Threw(CaptionsParseError)
  ELSE IF ~page.hasTracks THEN Threw(TracksMissingError)
  ELSE Returned(Array(LanguageOptions(page.tracks)))

(***************************************************************************)
(* The transcript fetch (getTranscript), on the response the POST          *)
(* produced.                                                               *)
(*   arrived  the fetch resolved (FALSE: it rejected)                      *)
(*   ok       the HTTP status was a success (the code never reads it)      *)
(*   json     response.json() resolved (FALSE: the body is not JSON)       *)
(*   hasActions, targetId   responseData.actions and its first action's    *)
(*            updateEngagementPanelAction.targetId                         *)
(*   hasSegments, segments  the initialSegments reached by the fixed path  *)
(* A raw segment has hasRenderer, startMs, endMs, hasRuns and runs; a raw   *)
(* timing field is absent, [kind |-> "undefined"], or a string, [kind |->  *)
(* "string", chars |-> ...], as the endpoint sends it.  A run is           *)
(* [isText, text].                                                         *)
(*                                                                         *)
(* A JS number is [kind, n]: "int" with its value, "nan", or "inf" with    *)
(* n = 1 for Infinity and n = -1 for -Infinity.                            *)
(***************************************************************************)
Timing(kind, n) == [kind |-> kind, n |-> n]
NaN == Timing("nan", 0)
Infinity(sign) == Timing("inf", sign)

Digits == {"0", "1", "2", "3", "4", "5", "6", "7", "8", "9"}
DigitValue(c) == CHOOSE d \in 0..9 : <<"0","1","2","3","4","5","6","7","8","9">>[d + 1] = c

\* s without its longest prefix of characters of the set
DropWhile(s, set) ==
  LET rest == {i \in 1..Len(s) : s[i] \notin set}
  IN  IF rest = {} THEN <<>> ELSE SubSeq(s, Min(rest), Len(s))

DigitRun(s) == SubSeq(s, 1, Len(s) - Len(DropWhile(s, Digits)))
DropZeros(s) == DropWhile(s, {"0"})

RECURSIVE Decimal(_)
Decimal(ds) == IF ds = <<>> THEN 0 ELSE 10 * Decimal(SubSeq(ds, 1, Len(ds) - 1)) + DigitValue(ds[Len(ds)])

SkipSpace(s) == DropWhile(s, WhiteSpace)

\* parseInt(string, 10): leading white space, an optional sign, then the
\* longest run of digits; NaN without a digit; a number of more than 309
\* significant digits is beyond the largest double and reads as Infinity
parseInt(chars) ==
  LET t == SkipSpace(chars)
      negative == t # <<>> /\ Head(t) = "-"
      u == IF t # <<>> /\ Head(t) \in {"-", "+"} THEN Tail(t) ELSE t
      ds == DigitRun(u)
      sign == IF negative THEN -1 ELSE 1
  IN  IF ds = <<>> THEN NaN
      ELSE IF Len(DropZeros(ds)) > 309 THEN Infinity(sign)
      ELSE Timing("int", sign * Decimal(DropZeros(ds)))

\* parseInt of a raw timing field (undefined reads as NaN)
Parsed(raw) == IF raw.kind = "string" THEN parseInt(raw.chars) ELSE NaN

\* isNaN(x)
isNaN(x) == x.kind = "nan"

\* x < y on numbers
Less(x, y) ==
  IF x.kind = "nan" \/ y.kind = "nan" THEN FALSE
  ELSE IF x.kind = "int" /\ y.kind = "int" THEN x.n < y.n
  ELSE IF x.kind = "inf" /\ y.kind = "inf" THEN x.n < y.n
  ELSE IF x.kind = "inf" THEN x.n < 0
  ELSE y.n > 0

\* x - y on numbers
Minus(x, y) ==
  IF x.kind = "nan" \/ y.kind = "nan" THEN NaN
  ELSE IF x.kind = "int" /\ y.kind = "int" THEN Timing("int", x.n - y.n)
  ELSE IF x.kind = "inf" /\ y.kind = "inf" THEN (IF x.n = y.n THEN NaN ELSE x)
  ELSE IF x.kind = "inf" THEN x
  ELSE Infinity(-y.n)

\* x / 1000: a finite number of seconds is kept as milliseconds over 1000
Seconds(x) == IF x.kind = "int" THEN [kind |-> "finite", ms |-> x.n, per |-> 1000] ELSE x

TranscriptPanel == "engagement-panel-searchable-transcript"

RECURSIVE TrimLeft(_)
TrimLeft(s) == IF s # <<>> /\ Head(s) \in WhiteSpace THEN TrimLeft(Tail(s)) ELSE s

RECURSIVE TrimRight(_)
TrimRight(s) ==
  IF s # <<>> /\ s[Len(s)] \in WhiteSpace THEN TrimRight(SubSeq(s, 1, Len(s) - 1)) ELSE s

\* String.prototype.trim
Trim(s) == TrimRight(TrimLeft(s))

\* replace(/\s+/g, ' '): every run of whitespace becomes one space
RECURSIVE CollapseSpaces(_)
CollapseSpaces(s) ==
  IF s = <<>> THEN <<>>
  ELSE IF Head(s) \in WhiteSpace
       THEN <<" ">> \o CollapseSpaces(TrimLeft(s))
       ELSE <<Head(s)>> \o CollapseSpaces(Tail(s))

\* the run texts of a segment, concatenated (runs without a string text add nothing)
RECURSIVE RunsText(_)
RunsText(runs) ==
  IF runs = <<>> THEN <<>>
  ELSE (IF Head(runs).isText THEN Head(runs).text ELSE <<>>) \o RunsText(Tail(runs))

SegmentText(seg) == CollapseSpaces(Trim(RunsText(seg.runs)))

\* a loop that does not compare the two times
KeepsSegmentUnordered(seg) ==
  /\ seg.hasRenderer
  /\ seg.startMs.kind # "undefined"
  /\ seg.endMs.kind # "undefined"
  /\ seg.hasRuns
  /\ SegmentText(seg) # <<>>
  /\ ~isNaN(Parsed(seg.startMs))
  /\ ~isNaN(Parsed(seg.endMs))

\* the segments the loop does not skip
KeepsSegment(seg) ==
  /\ seg.hasRenderer
  /\ seg.startMs.kind # "undefined"
  /\ seg.endMs.kind # "undefined"
  /\ seg.hasRuns
  /\ SegmentText(seg) # <<>>
  /\ ~isNaN(Parsed(seg.startMs))
  /\ ~isNaN(Parsed(seg.endMs))
  /\ ~Less(Parsed(seg.endMs), Parsed(seg.startMs))

Part(seg) ==
  [start |-> Seconds(Parsed(seg.startMs)),
   duration |-> Seconds(Minus(Parsed(seg.endMs), Parsed(seg.startMs))),
   text |-> SegmentText(seg)]

RECURSIVE Parts(_)
Parts(segments) ==
  IF segments = <<>> THEN <<>>
  ELSE (IF KeepsSegment(Head(segments)) THEN <<Part(Head(segments))>> ELSE <<>>)
         \o Parts(Tail(segments))

\* parts.map(part => part.text).join(' ')
RECURSIVE JoinTexts(_)
JoinTexts(parts) ==
  IF parts = <<>> THEN <<>>
  ELSE IF Len(parts) = 1 THEN parts[1].text
  ELSE parts[1].text \o <<" ">> \o JoinTexts(Tail(parts))

FullTranscript(parts) == Trim(JoinTexts(parts))

NoTranscriptFound == "No transcript found for this video in the specified language"
StructureChanged == "Could not parse transcript data. The API structure might have changed."
NoTextSegments == "Transcript was found but contained no text segments"
BodyNotJson == "Unexpected token in JSON"

\* an error class that always answers 404
TranscriptErrorNotFound(msg, status) ==
  [threw |-> TRUE, error |-> msg, status |-> 404, value |-> Undefined]

\* throw new TranscriptError(message, status = 404)
TranscriptError(msg, status) == [threw |-> TRUE, error |-> msg, status |-> status, value |-> Undefined]

getTranscript(langOption, response) ==
  IF ~response.arrived THEN Threw(FetchFailed)
  ELSE IF ~response.json THEN Threw(BodyNotJson)
  ELSE IF ~response.hasSegments
       THEN IF response.hasActions /\ response.targetId = TranscriptPanel
            THEN TranscriptError(NoTranscriptFound, 404)
            ELSE TranscriptError(StructureChanged, 500)
  ELSE IF Parts(response.segments) = <<>> THEN TranscriptError(NoTextSegments, 404)
  ELSE Returned([type |-> "object",
                 languageCode |-> langOption.languageCode,
                 kind |-> langOption.kind,
                 language |-> langOption.language,
                 transcript |-> FullTranscript(Parts(response.segments)),
                 parts |-> Parts(response.segments)])

(***************************************************************************)
(* The KV store as the handlers use it.  A stored text is either the JSON  *)
(* text of a value, [type |-> "json", of |-> v], or a text that is not     *)
(* JSON.  JSON.stringify(undefined) is undefined, not a text: the store    *)
(* is then handed undefined and keeps its string form.                     *)
(***************************************************************************)
NoEntry == [type |-> "absent"]
NotJsonText == [type |-> "text", chars |-> "undefined"]

\* JSON has no text for NaN and the infinities: they are written as null
JsonNumber(x) == IF x.kind = "finite" THEN x ELSE JsNull
JsonPart(part) == [part EXCEPT !.start = JsonNumber(@), !.duration = JsonNumber(@)]
JsonValue(v) ==
  IF v.type = "object" THEN [v EXCEPT !.parts = [i \in DOMAIN @ |-> JsonPart(@[i])]] ELSE v

JSONstringify(v) ==
  IF v.type = "undefined" THEN Undefined ELSE [type |-> "json", of |-> JsonValue(v)]

\* what put(key, value) leaves in the store
StoredText(value) == IF value.type = "json" THEN value ELSE NotJsonText

\* MY_KV.get(key, 'json'): null for no entry, the parsed value, or a parse failure
KVget(entry) ==
  IF entry.type = "absent" THEN Returned(JsNull)
  ELSE IF entry.type = "json" THEN Returned(entry.of)
  ELSE Threw("KV value is not valid JSON")

(***************************************************************************)
(* buildTranscriptToken.  Here a string is the sequence of its character   *)
(* codes (UTF-16 code units), and a binary string is a sequence of codes   *)
(* that btoa accepts when none exceeds 255.                                *)
(***************************************************************************)
Upper == "ABCDEFGHIJKLMNOPQRSTUVWXYZ"
Lower == "abcdefghijklmnopqrstuvwxyz"
Numerals == "0123456789"

IndexIn(text, c) == CHOOSE i \in 1..Len(text) : SubSeq(text, i, i) = c
Occurs(text, c) == \E i \in 1..Len(text) : SubSeq(text, i, i) = c

\* the code of a letter, a digit, "-", ":" or "_"
CodeOf(c) ==
  IF Occurs(Upper, c) THEN 64 + IndexIn(Upper, c)
  ELSE IF Occurs(Lower, c) THEN 96 + IndexIn(Lower, c)
  ELSE IF Occurs(Numerals, c) THEN 47 + IndexIn(Numerals, c)
  ELSE IF c = "-" THEN 45
  ELSE IF c = ":" THEN 58
  ELSE 95

Codes(text) == [i \in 1..Len(text) |-> CodeOf(SubSeq(text, i, i))]

\* String.fromCharCode(n)
fromCharCode(n) == n % 65536

\* the base64 character of a six-bit value, and the padding character
B64Code(v) ==
  IF v < 26 THEN 65 + v
  ELSE IF v < 52 THEN 97 + (v - 26)
  ELSE IF v < 62 THEN 48 + (v - 52)
  ELSE IF v = 62 THEN 43
  ELSE 47

B64Pad == 61

Base64(bytes) ==
  LET n == Len(bytes)
      byte(i) == IF i <= n THEN bytes[i] ELSE 0
      char(p) ==
        LET g == (p - 1) \div 4
            k == (p - 1) % 4
            b1 == byte(3 * g + 1)
            b2 == byte(3 * g + 2)
            b3 == byte(3 * g + 3)
        IN  IF k = 0 THEN B64Code(b1 \div 4)
            ELSE IF k = 1 THEN B64Code((b1 % 4) * 16 + (b2 \div 16))
            ELSE IF k = 2 THEN (IF 3 * g + 2 > n THEN B64Pad
                                ELSE B64Code((b2 % 16) * 4 + (b3 \div 64)))
            ELSE (IF 3 * g + 3 > n THEN B64Pad ELSE B64Code(b3 % 64))
  IN  [p \in 1..(4 * ((n + 2) \div 3)) |-> char(p)]

InvalidCharacter == "Invalid character"

\* the element of a singleton: a value bound once, like a const of the code
Const(S) == CHOOSE x \in S : TRUE

\* btoa(binary): a character beyond 255 is an InvalidCharacterError
btoa(binary) ==
  Const({ IF \E i \in DOMAIN b : b[i] > 255 THEN Threw(InvalidCharacter)
          ELSE Returned(Base64(b))
          : b \in {binary} })

\* encodeURIComponent of one base64 character: "+", "/" and "=" are escaped
EscapeChar(c) ==
  IF c = 43 THEN <<37, 50, 66>>
  ELSE IF c = 47 THEN <<37, 50, 70>>
  ELSE IF c = 61 THEN <<37, 51, 68>>
  ELSE <<c>>

RECURSIVE encodeURIComponent(_)
encodeURIComponent(chars) ==
  Const({ IF c = <<>> THEN <<>>
          ELSE IF Len(c) = 1 THEN EscapeChar(c[1])
          ELSE encodeURIComponent(SubSeq(c, 1, Len(c) \div 2))
                 \o encodeURIComponent(SubSeq(c, Len(c) \div 2 + 1, Len(c)))
          : c \in {chars} })

\* a field without its length
FieldNoLength(tag, value) == <<tag>> \o value

\* String.fromCharCode(tag) + String.fromCharCode(value.length) + value
Field(tag, value) == <<tag, fromCharCode(Len(value))>> \o value

PanelName == Codes("engagement-panel-searchable-transcript-search-panel")

\* the outer blob and b64urlEncodeBinary(outer)
OuterBlob(videoId, innerB64, lastFlag) ==
  LET outer == Field(10, videoId) \o Field(18, innerB64) \o <<24, 1>>
                 \o Field(42, PanelName) \o <<48, 1, 56, 1, 64, IF lastFlag THEN 1 ELSE 0>>
  IN  Const({ IF encoded.threw THEN encoded ELSE Returned(encodeURIComponent(encoded.value))
              : encoded \in {btoa(outer)} })

buildTranscriptToken(videoId, source, lang, lastFlag) ==
  LET inner == Field(10, source) \o Field(18, lang) \o <<26, 0>>
  IN  Const({ IF innerB64.threw THEN innerB64
              ELSE OuterBlob(videoId, innerB64.value, lastFlag)
              : innerB64 \in {btoa(inner)} })

\* the kind is encoded as it is given
SourceVerbatim(kind) == kind

\* kind === 'asr' ? kind : ''
Source(kind) == IF kind = "asr" THEN kind ELSE ""

\* getTranscript up to its fetch: the request parameter, or what btoa threw
RequestParams(videoId, langOption) ==
  buildTranscriptToken([i \in DOMAIN videoId |-> CodeOf(videoId[i])],
                       Codes(Source(langOption.kind)),
                       Codes(langOption.languageCode), TRUE)

(***************************************************************************)
(* The inputs the environment can produce.                                 *)
(***************************************************************************)
VideoId1 == <<"d","Q","w","4","w","9","W","g","X","c","Q">>
ShortLink == YoutuBe \o VideoId1
NotAUrl == <<"n","o","t"," ","a"," ","u","r","l">>

\* A request body: malformed is a body that is not JSON; an absent or empty
\* field is the empty text (the code reads every field through ||).
Body(malformed, videoUrl, videoId, language, kind) ==
  [malformed |-> malformed, videoUrl |-> videoUrl, videoId |-> videoId,
   language |-> language, kind |-> kind]

Bodies ==
  { Body(TRUE, <<>>, <<>>, "", ""),
    Body(FALSE, <<>>, <<>>, "", ""),
    Body(FALSE, NotAUrl, <<>>, "", ""),
    Body(FALSE, <<>>, ShortLink, "", "") }

Endpoints == {"languages", "transcript"}

Spanish == <<"S","p","a","n","i","s","h">>

Track(name, languageCode, kind) == [name |-> name, languageCode |-> languageCode, kind |-> kind]

Page(arrived, ok, captions, hasTracks, tracks) ==
  [from |-> "page", arrived |-> arrived, ok |-> ok, captions |-> captions,
   hasTracks |-> hasTracks, tracks |-> tracks]

Pages ==
  { Page(FALSE, FALSE, "absent", FALSE, <<>>),
    Page(TRUE, FALSE, "absent", FALSE, <<>>),
    Page(TRUE, TRUE, "absent", FALSE, <<>>),
    Page(TRUE, TRUE, "malformed", FALSE, <<>>),
    Page(TRUE, TRUE, "parsed", FALSE, <<>>),
    Page(TRUE, TRUE, "parsed", TRUE, <<Track(Spanish, "es", ""), Track(English, "en", "asr")>>) }

Ms(chars) == [kind |-> "string", chars |-> chars]
NoMs == [kind |-> "undefined"]
Run(isText, text) == [isText |-> isText, text |-> text]
Segment(hasRenderer, startMs, endMs, hasRuns, runs) ==
  [hasRenderer |-> hasRenderer, startMs |-> startMs, endMs |-> endMs,
   hasRuns |-> hasRuns, runs |-> runs]

GoodSegments ==
  << Segment(TRUE, Ms(<<"0">>), Ms(<<"1","5","0","0">>), TRUE,
             <<Run(TRUE, <<" ","h","i"," "," ">>), Run(TRUE, <<"y","o","u"," ">>)>>),
     Segment(TRUE, Ms(<<"1","5","0","0">>), Ms(<<"1","0","0","0">>), TRUE, <<Run(TRUE, <<"n","o">>)>>),
     Segment(TRUE, Ms(<<"1","5","0","0">>), Ms(<<"1","5","0","0">>), TRUE, <<Run(TRUE, <<"o","k">>)>>) >>

BadSegments ==
  << Segment(TRUE, NoMs, Ms(<<"1","0">>), TRUE, <<Run(TRUE, <<"a">>)>>),
     Segment(TRUE, Ms(<<"0">>), Ms(<<"1","0">>), TRUE, <<Run(TRUE, <<" ">>)>>),
     Segment(TRUE, Ms(<<"x">>), Ms(<<"1","0">>), TRUE, <<Run(TRUE, <<"b">>)>>) >>

Answer(arrived, ok, json, hasActions, targetId, hasSegments, segments) ==
  [from |-> "transcript", arrived |-> arrived, ok |-> ok, json |-> json,
   hasActions |-> hasActions, targetId |-> targetId,
   hasSegments |-> hasSegments, segments |-> segments]

Answers ==
  { Answer(FALSE, FALSE, FALSE, FALSE, "", FALSE, <<>>),
    Answer(TRUE, TRUE, FALSE, FALSE, "", FALSE, <<>>),
    Answer(TRUE, FALSE, TRUE, FALSE, "", FALSE, <<>>),
    Answer(TRUE, TRUE, TRUE, TRUE, TranscriptPanel, FALSE, <<>>),
    Answer(TRUE, TRUE, TRUE, TRUE, TranscriptPanel, TRUE, GoodSegments),
    Answer(TRUE, TRUE, TRUE, TRUE, TranscriptPanel, TRUE, BadSegments) }

NoUpstream == [from |-> "none"]

(***************************************************************************)
(* The state.                                                              *)
(*   kvBound  the worker's environment has the MY_KV binding               *)
(*   cache    the KV namespace: key -> stored text                         *)
(*   req      one record per request in flight: where its handler stands   *)
(*            (pc), what it read from the request, the retry executor's    *)
(*            locals, the detached put and the response; and, kept for     *)
(*            the properties, what it has called so far (calls: store      *)
(*            reads, computations, upstream HTTP calls, invocations of     *)
(*            the retried operation that threw, store writes), the events  *)
(*            of the retry executor in order (log: 0 for an invocation of  *)
(*            the operation, the delay for a sleep), the parameter posted  *)
(*            to the transcript endpoint (params), the last upstream       *)
(*            response (upstream), how the cache read ended (got:          *)
(*            "unavailable" the store failed, "miss" no entry, "hit", or   *)
(*            "corrupt" the entry did not parse) and the requests whose    *)
(*            put had landed when it arrived (after)                       *)
(***************************************************************************)
VARIABLES kvBound, cache, req

vars == <<kvBound, cache, req>>

Req == DOMAIN req

NoPut == [status |-> "none"]
NoResponse == [status |-> 0]

Idle ==
  [pc |-> "idle", endpoint |-> "", body |-> Body(FALSE, <<>>, <<>>, "", ""),
   videoId |-> NoId, language |-> "", kind |-> "", cacheKey |-> "",
   got |-> "none", after |-> {}, attempt |-> 0, lastError |-> "", log |-> <<>>,
   params |-> <<>>,
   upstream |-> NoUpstream, result |-> Undefined, put |-> NoPut, resp |-> NoResponse,
   calls |-> [get |-> 0, compute |-> 0, http |-> 0, threw |-> 0, put |-> 0]]

Init ==
  /\ kvBound \in BOOLEAN
  /\ cache = <<>>
  /\ req = [r \in 1..MaxRequests |-> Idle]

(***************************************************************************)
(* Responses (c.json).                                                     *)
(***************************************************************************)
Failure(status, msg) ==
  [status |-> status, success |-> FALSE, cache |-> "", data |-> Undefined, error |-> msg]
Success(data, tag) ==
  [status |-> 200, success |-> TRUE, cache |-> tag, data |-> data, error |-> ""]

CacheNotAvailable == "Server configuration error: Cache not available."
MissingVideo == "Missing videoUrl or videoId in request body."
InvalidVideo == "Invalid YouTube URL or video ID provided."

Respond(l, resp) == [l EXCEPT !.pc = "done", !.resp = resp]

\* the handlers' catch block: a TranscriptError answers with its own status,
\* anything else with 500
Caught(l, thrown) ==
  Respond(l, Failure(IF thrown.status # 0 THEN thrown.status ELSE 500, thrown.error))

(***************************************************************************)
(* The handlers up to the cache read.                                      *)
(***************************************************************************)
\* body?.videoUrl || body?.videoId
VideoUrl(body) == IF body.videoUrl # <<>> THEN body.videoUrl ELSE body.videoId

CacheKey(endpoint, videoId, language, kind) ==
  IF endpoint = "languages" THEN "languages:" \o Str(videoId)
  ELSE "transcript:" \o Str(videoId) \o ":" \o language \o ":" \o kind

\* no default at all
OrDefaultNone(given, default) == given

\* body?.language || DEFAULT_TRANSCRIPT_LANGUAGE
OrDefault(given, default) == IF given # "" THEN given ELSE default

\* the identifier is resolved: the key is built and the cache read is issued
Accepted(l, endpoint, body) ==
  LET videoId == extractVideoId(VideoUrl(body))
      language == OrDefault(body.language, DEFAULT_TRANSCRIPT_LANGUAGE)
      kind == OrDefault(body.kind, DEFAULT_TRANSCRIPT_KIND)
  IN  [l EXCEPT !.pc = "get",
                !.videoId = videoId,
                !.language = IF endpoint = "transcript" THEN language ELSE "",
                !.kind = IF endpoint = "transcript" THEN kind ELSE "",
                !.cacheKey = CacheKey(endpoint, videoId, language, kind),
                !.calls.get = @ + 1]

\* if (!videoUrl) ... 400;  if (!videoId) ... 400
Validate(l, endpoint, body) ==
  IF VideoUrl(body) = <<>> THEN Respond(l, Failure(400, MissingVideo))
  ELSE IF extractVideoId(VideoUrl(body)) = NoId THEN Respond(l, Failure(400, InvalidVideo))
  ELSE Accepted(l, endpoint, body)

\* the handler from its entry: the binding guard, the body, the validation
Handle(l, bound, endpoint, body) ==
  IF ~bound THEN Respond(l, Failure(500, CacheNotAvailable))
  ELSE IF body.malformed THEN Caught(l, Threw(BodyNotJson))
  ELSE Validate(l, endpoint, body)

Landed == {q \in Req : req[q].put.status = "stored"}

\* an arrival that is held back while a request sleeps between attempts
ReceiveQueued(r, endpoint, body) ==
  /\ req[r].pc = "idle"
  /\ \A q \in Req : q < r => req[q].pc # "idle"
  /\ \A q \in Req : req[q].pc # "sleep"
  /\ req' = [req EXCEPT ![r] =
       Handle([@ EXCEPT !.endpoint = endpoint, !.body = body, !.after = Landed],
              kvBound, endpoint, body)]
  /\ UNCHANGED <<kvBound, cache>>

\* a request arrives (in the lowest free slot) and its handler runs up to
\* its first call of the store
Receive(r, endpoint, body) ==
  /\ req[r].pc = "idle"
  /\ \A q \in Req : q < r => req[q].pc # "idle"
  /\ req' = [req EXCEPT ![r] =
       Handle([@ EXCEPT !.endpoint = endpoint, !.body = body, !.after = Landed],
              kvBound, endpoint, body)]
  /\ UNCHANGED <<kvBound, cache>>

(***************************************************************************)
(* The cache read and what follows it.                                     *)
(***************************************************************************)
Lookup(k) == IF k \in DOMAIN cache THEN cache[k] ELSE NoEntry

\* the first invocation of the operation by retryWithBackoff: the page fetch
\* is issued and the handler waits for it
StartDiscovery(l) ==
  [l EXCEPT !.pc = "fetch", !.attempt = 0, !.log = <<0>>,
            !.calls.compute = @ + 1, !.calls.http = @ + 1]

LangOption(l) == [languageCode |-> l.language, kind |-> l.kind, language |-> l.language]

\* getTranscript builds the request parameter, posts it to the transcript
\* endpoint and waits for the answer; an error of the encoder reaches the
\* handler's catch before anything is posted
StartTranscript(l) ==
  LET params == RequestParams(l.videoId, LangOption(l))
      m == [l EXCEPT !.calls.compute = @ + 1]
  IN  IF params.threw THEN Caught(m, params)
      ELSE [m EXCEPT !.pc = "post", !.params = params.value, !.calls.http = @ + 1]

Compute(l) == IF l.endpoint = "languages" THEN StartDiscovery(l) ELSE StartTranscript(l)

\* a hit test that only accepts objects
IsHitObjectsOnly(got) == ~got.threw /\ got.value.type = "object"

\* if (cachedData) return c.json({..., data: cachedData, cache: 'hit'})
IsHit(got) == ~got.threw /\ Truthy(got.value)

HitResponse(cachedData) == Success(cachedData, "hit")

\* a cache read without its try/catch: a failed get reaches the handler's catch
AfterGetUnguarded(l, got) ==
  IF got.threw THEN Caught(l, got)
  ELSE IF Truthy(got.value) THEN Respond(l, Success(got.value, "hit"))
  ELSE Compute(l)

\* the try/catch around the get: a stored value answers the request, a miss
\* and a failed get both go on to the computation
AfterGet(l, got) ==
  IF IsHit(got) THEN Respond(l, HitResponse(got.value)) ELSE Compute(l)

\* a cache read that waits while another request computes for the same key
CacheGetSerialized(r, fails) ==
  LET got == IF fails THEN Threw("KV get failed") ELSE KVget(Lookup(req[r].cacheKey))
      how == IF fails THEN "unavailable"
             ELSE IF got.threw THEN "corrupt"
             ELSE IF Truthy(got.value) THEN "hit" ELSE "miss"
  IN  /\ req[r].pc = "get"
      /\ \A q \in Req \ {r} :
           req[q].cacheKey = req[r].cacheKey => req[q].pc \notin {"fetch", "sleep", "post"}
      /\ req' = [req EXCEPT ![r] = AfterGet([@ EXCEPT !.got = how], got)]
      /\ UNCHANGED <<kvBound, cache>>

\* the get settles: the store fails, or answers with the entry of the key
\* (which get(key, 'json') may fail to parse)
CacheGet(r, fails) ==
  LET got == IF fails THEN Threw("KV get failed") ELSE KVget(Lookup(req[r].cacheKey))
      how == IF fails THEN "unavailable"
             ELSE IF got.threw THEN "corrupt"
             ELSE IF Truthy(got.value) THEN "hit" ELSE "miss"
  IN  /\ req[r].pc = "get"
      /\ req' = [req EXCEPT ![r] = AfterGet([@ EXCEPT !.got = how], got)]
      /\ UNCHANGED <<kvBound, cache>>

(***************************************************************************)
(* After the computation: the detached put and the response.               *)
(***************************************************************************)
\* a put that keeps the entry for a minute
PutRequestShortTtl(key, data) ==
  [status |-> "pending", key |-> key, value |-> JSONstringify(data), expirationTtl |-> 60]

\* MY_KV.put(cacheKey, JSON.stringify(data), { expirationTtl: CACHE_TTL_SECONDS })
PutRequest(key, data) ==
  [status |-> "pending", key |-> key, value |-> JSONstringify(data),
   expirationTtl |-> CACHE_TTL_SECONDS]

MissResponse(data) == Success(data, "miss")

\* waitUntil(put(...)) and the response, with nothing awaited in between
Computed(l, data) ==
  Respond([l EXCEPT !.result = data,
                    !.put = PutRequest(l.cacheKey, data),
                    !.calls.put = @ + 1],
          MissResponse(data))

(***************************************************************************)
(* retryWithBackoff around the discovery operation.                        *)
(***************************************************************************)
\* a catch block that never gives up
FailedKeepsTrying(l, thrown) ==
  [l EXCEPT !.lastError = thrown.error, !.calls.threw = @ + 1,
            !.pc = "sleep", !.log = Append(@, RetryDelay(l.attempt))]

\* the catch block: remember the error, give up on the last attempt,
\* otherwise start the sleep
Failed(l, thrown) ==
  LET m == [l EXCEPT !.lastError = thrown.error, !.calls.threw = @ + 1]
  IN  IF LastAttempt(l.attempt) THEN Caught(m, Threw(m.lastError))
      ELSE [m EXCEPT !.pc = "sleep", !.log = Append(@, RetryDelay(l.attempt))]

\* return await fn(), or the catch block
Attempted(l, outcome) ==
  IF outcome.threw THEN Failed(l, outcome) ELSE Computed(l, outcome.value)

\* the page fetch settles and the operation runs to its end
PageFetched(r, page) ==
  /\ req[r].pc = "fetch"
  /\ req' = [req EXCEPT ![r] =
       Attempted([@ EXCEPT !.upstream = page], DiscoveryAttempt(page))]
  /\ UNCHANGED <<kvBound, cache>>

\* the sleep ends: the loop's next round invokes the operation again
WakeUp(r) ==
  /\ req[r].pc = "sleep"
  /\ req' = [req EXCEPT ![r] =
       [@ EXCEPT !.pc = "fetch", !.attempt = @ + 1, !.log = Append(@, 0),
                 !.calls.http = @ + 1]]
  /\ UNCHANGED <<kvBound, cache>>

(***************************************************************************)
(* The transcript handler's computation.                                   *)
(***************************************************************************)
\* a handler that also stores what a failed getTranscript left behind
FetchedAlwaysStores(l, outcome) ==
  IF outcome.threw THEN Caught([l EXCEPT !.put = PutRequest(l.cacheKey, outcome.value),
                                         !.calls.put = @ + 1], outcome)
  ELSE Computed(l, outcome.value)

Fetched(l, outcome) ==
  IF outcome.threw THEN Caught(l, outcome) ELSE Computed(l, outcome.value)

\* the POST settles and getTranscript runs to its end
TranscriptFetched(r, answer) ==
  /\ req[r].pc = "post"
  /\ req' = [req EXCEPT ![r] =
       Fetched([@ EXCEPT !.upstream = answer], getTranscript(LangOption(req[r]), answer))]
  /\ UNCHANGED <<kvBound, cache>>

(***************************************************************************)
(* The store: a pending put lands or fails; an entry expires.  The         *)
(* request's context ends once it has responded and its put has settled.   *)
(***************************************************************************)
\* .then(() => console.log(...)) / .catch(err => console.error(...))
PutSettles(r, lands) ==
  /\ req[r].put.status = "pending"
  /\ req' = [req EXCEPT ![r].put.status = IF lands THEN "stored" ELSE "failed"]
  /\ cache' = IF lands
              THEN [k \in DOMAIN cache \cup {req[r].put.key} |->
                      IF k = req[r].put.key THEN StoredText(req[r].put.value) ELSE cache[k]]
              ELSE cache
  /\ UNCHANGED kvBound

\* expirationTtl has passed
Expire(k) ==
  /\ k \in DOMAIN cache
  /\ cache' = [j \in DOMAIN cache \ {k} |-> cache[j]]
  /\ UNCHANGED <<kvBound, req>>

Finish(r) ==
  /\ req[r].pc = "done"
  /\ req[r].put.status # "pending"
  /\ req' = [q \in Req |-> IF q = r THEN Idle ELSE [req[q] EXCEPT !.after = @ \ {r}]]
  /\ UNCHANGED <<kvBound, cache>>

Next ==
  \/ \E r \in Req, endpoint \in Endpoints, body \in Bodies : Receive(r, endpoint, body)
  \/ \E r \in Req, fails \in BOOLEAN : CacheGet(r, fails)
  \/ \E r \in Req, page \in Pages : PageFetched(r, page)
  \/ \E r \in Req : WakeUp(r)
  \/ \E r \in Req, answer \in Answers : TranscriptFetched(r, answer)
  \/ \E r \in Req, lands \in BOOLEAN : PutSettles(r, lands)
  \/ \E k \in DOMAIN cache : Expire(k)
  \/ \E r \in Req : Finish(r)

Spec == Init /\ [][Next]_vars

(***************************************************************************)
(* The worker when every call it awaits settles: the store answers or      *)
(* fails every get, the upstream answers or fails every fetch, and every   *)
(* timer of a backoff sleep fires.                                         *)
(***************************************************************************)
Settles(r) ==
  /\ WF_vars(\E fails \in BOOLEAN : CacheGet(r, fails))
  /\ WF_vars(\E page \in Pages : PageFetched(r, page))
  /\ WF_vars(WakeUp(r))
  /\ WF_vars(\E answer \in Answers : TranscriptFetched(r, answer))

SpecLive == Init /\ [][Next]_vars /\ \A r \in 1..MaxRequests : Settles(r)

(***************************************************************************)
(* The same worker with one more request in flight.                        *)
(***************************************************************************)
InitOverlap ==
  /\ kvBound \in BOOLEAN
  /\ cache = <<>>
  /\ req = [r \in 1..(MaxRequests + 1) |-> Idle]

SpecOverlap == InitOverlap /\ [][Next]_vars

(***************************************************************************)
(* The transcript handler alone, one request at a time, against every      *)
(* answer of the transcript endpoint with at most MaxSegments segments.    *)
(***************************************************************************)
MaxSegments == 2

Hi == <<Run(TRUE, <<" ","h","i"," "," ">>), Run(FALSE, <<"x">>), Run(TRUE, <<"y","o","u","\n">>)>>
Ok == <<Run(TRUE, <<"o","k">>)>>
ManyNines == [i \in 1..310 |-> "9"]

SegmentShapes ==
  { Segment(TRUE, Ms(<<"0">>), Ms(<<"1","5","0","0">>), TRUE, Hi),
    Segment(TRUE, Ms(<<"1","5","0","0">>), Ms(<<"1","5","0","0">>), TRUE, Ok),
    Segment(TRUE, Ms(<<"1","5","0","0">>), Ms(<<"1","0","0","0">>), TRUE, Ok),
    Segment(TRUE, NoMs, Ms(<<"1","0">>), TRUE, Ok),
    Segment(TRUE, Ms(<<"1","0">>), Ms(<<"x">>), TRUE, Ok),
    Segment(TRUE, Ms(<<"0">>), Ms(<<"1","0">>), TRUE, <<Run(TRUE, <<" ","\t">>), Run(FALSE, <<"x">>)>>),
    Segment(TRUE, Ms(<<"0">>), Ms(<<"1","0">>), FALSE, <<>>),
    Segment(FALSE, NoMs, NoMs, FALSE, <<>>),
    Segment(TRUE, Ms(<<"-","1","0","0","0">>), Ms(<<"5","0","0">>), TRUE, Ok),
    Segment(TRUE, Ms(ManyNines), Ms(ManyNines), TRUE, Ok) }

SegmentLists ==
  UNION {[1..n -> SegmentShapes] : n \in 0..MaxSegments} \cup {GoodSegments, BadSegments}

TranscriptAnswers ==
  Answers
    \cup { Answer(TRUE, ok, TRUE, TRUE, target, FALSE, <<>>) :
             ok \in BOOLEAN, target \in {TranscriptPanel, "engagement-panel-comments"} }
    \cup { Answer(TRUE, TRUE, TRUE, FALSE, "", FALSE, <<>>),
           Answer(TRUE, FALSE, TRUE, TRUE, TranscriptPanel, TRUE, GoodSegments) }
    \cup { Answer(TRUE, TRUE, TRUE, TRUE, TranscriptPanel, TRUE, segments) :
             segments \in SegmentLists }

InitTranscript ==
  /\ kvBound = TRUE
  /\ cache = <<>>
  /\ req = <<Idle>>

NextTranscript ==
  \/ \E r \in Req : Receive(r, "transcript", Body(FALSE, <<>>, ShortLink, "", ""))
  \/ \E r \in Req, fails \in BOOLEAN : CacheGet(r, fails)
  \/ \E r \in Req, answer \in TranscriptAnswers : TranscriptFetched(r, answer)
  \/ \E r \in Req, lands \in BOOLEAN : PutSettles(r, lands)
  \/ \E k \in DOMAIN cache : Expire(k)
  \/ \E r \in Req : Finish(r)

SpecTranscript == InitTranscript /\ [][NextTranscript]_vars

(***************************************************************************)
(* The languages handler alone, one request at a time, against every       *)
(* watch page whose caption fragment lists at most MaxTracks tracks.       *)
(***************************************************************************)
MaxTracks == 3

EnglishAuto == English \o <<" ","(","a","u","t","o","-","g","e","n","e","r","a","t","e","d",")">>
French == <<"F","r","e","n","c","h">>

TrackShapes ==
  { Track(English, "en", ""),
    Track(EnglishAuto, "en", "asr"),
    Track(Spanish, "es", ""),
    Track(Spanish, "es-419", "asr"),
    Track(French, "fr", "") }

TrackLists == UNION {[1..n -> TrackShapes] : n \in 0..MaxTracks}

InitLanguages ==
  /\ kvBound = TRUE
  /\ cache = <<>>
  /\ req = <<Idle>>

NextLanguages ==
  \/ \E r \in Req : Receive(r, "languages", Body(FALSE, <<>>, ShortLink, "", ""))
  \/ \E r \in Req, fails \in BOOLEAN : CacheGet(r, fails)
  \/ \E r \in Req, tracks \in TrackLists : PageFetched(r, Page(TRUE, TRUE, "parsed", TRUE, tracks))
  \/ \E r \in Req, lands \in BOOLEAN : PutSettles(r, lands)
  \/ \E k \in DOMAIN cache : Expire(k)
  \/ \E r \in Req : Finish(r)

SpecLanguages == InitLanguages /\ [][NextLanguages]_vars

(***************************************************************************)
(* The handlers up to the resolution of the identifier, against links and  *)
(* tokens put together from a prefix, a token and a suffix.                *)
(***************************************************************************)
Chars(text) == [i \in 1..Len(text) |-> SubSeq(text, i, i)]

LinkPrefixes ==
  { Chars("https://www.youtube.com/watch?v="),
    Chars("https://www.youtube.com/watch?feature=share&v="),
    Chars("https://youtu.be/"),
    Chars("https://www.youtube.com/embed/"),
    Chars("youtube.com/shorts/"),
    Chars("https://m.youtube.com/shorts/") }

OtherPrefixes ==
  { Chars("https://example.com/watch?v="),
    Chars("https://vimeo.com/"),
    Chars("not a url ") }

GoodTokens == { VideoId1, Chars("a_B-c_D-e_0") }

BadTokens == { Chars("dQw4w9WgXc"), Chars("dQw4w9!gXcQ"), Chars("dQw4 w9WgXcQ"), <<>> }

LongToken == Chars("dQw4w9WgXcQZ")

Suffixes == { <<>>, Chars("&t=42s"), Chars("?si=abc"), Chars("/") }

Urls ==
  { prefix \o token \o suffix :
      prefix \in LinkPrefixes \cup OtherPrefixes \cup {<<>>},
      token \in GoodTokens \cup BadTokens \cup {LongToken},
      suffix \in Suffixes }

InitResolver ==
  /\ kvBound = TRUE
  /\ cache = <<>>
  /\ req = <<Idle>>

NextResolver ==
  \/ \E r \in Req, endpoint \in Endpoints, url \in Urls :
       \/ Receive(r, endpoint, Body(FALSE, url, <<>>, "", ""))
       \/ Receive(r, endpoint, Body(FALSE, <<>>, url, "", ""))
  \/ \E r \in Req : Finish(r)

SpecResolver == InitResolver /\ [][NextResolver]_vars

(***************************************************************************)
(* Two requests for one video that give or omit the language and the       *)
(* kind, against an upstream that answers well.                            *)
(***************************************************************************)
KeyedBodies ==
  { Body(FALSE, <<>>, VideoId1, "", ""),
    Body(FALSE, ShortLink, <<>>, "en", "asr"),
    Body(FALSE, <<>>, VideoId1, "es", ""),
    Body(FALSE, <<>>, VideoId1, "en", "manual") }

GoodPage == Page(TRUE, TRUE, "parsed", TRUE, <<Track(Spanish, "es", ""), Track(English, "en", "asr")>>)
GoodAnswer == Answer(TRUE, TRUE, TRUE, TRUE, TranscriptPanel, TRUE, GoodSegments)

InitDefaults ==
  /\ kvBound = TRUE
  /\ cache = <<>>
  /\ req = <<Idle, Idle>>

NextDefaults ==
  \/ \E r \in Req, endpoint \in Endpoints, body \in KeyedBodies : Receive(r, endpoint, body)
  \/ \E r \in Req : CacheGet(r, FALSE)
  \/ \E r \in Req : PageFetched(r, GoodPage)
  \/ \E r \in Req : TranscriptFetched(r, GoodAnswer)
  \/ \E r \in Req, lands \in BOOLEAN : PutSettles(r, lands)
  \/ \E k \in DOMAIN cache : Expire(k)
  \/ \E r \in Req : Finish(r)

SpecDefaults == InitDefaults /\ [][NextDefaults]_vars

(***************************************************************************)
(* The transcript handler alone, one request at a time, for language       *)
(* strings of every length around the limits of the length byte.           *)
(***************************************************************************)
Z8 == "zzzzzzzz"
Z64 == Z8 \o Z8 \o Z8 \o Z8 \o Z8 \o Z8 \o Z8 \o Z8
Z127 == Z64 \o Z8 \o Z8 \o Z8 \o Z8 \o Z8 \o Z8 \o Z8 \o "zzzzzzz"

\* 2, 88, 128 and 256 characters
LongLanguages == { "en", Z64 \o Z8 \o Z8 \o Z8, Z127 \o "z", Z127 \o Z127 \o "zz" }

LengthBodies ==
  { Body(FALSE, <<>>, VideoId1, language, "asr") : language \in LongLanguages }
    \cup { Body(FALSE, <<>>, VideoId1, Z127 \o "z", "manual") }

InitLengths ==
  /\ kvBound = TRUE
  /\ cache = <<>>
  /\ req = <<Idle>>

NextLengths ==
  \/ \E r \in Req, body \in LengthBodies : Receive(r, "transcript", body)
  \/ \E r \in Req, fails \in BOOLEAN : CacheGet(r, fails)
  \/ \E r \in Req, answer \in Answers : TranscriptFetched(r, answer)
  \/ \E r \in Req, lands \in BOOLEAN : PutSettles(r, lands)
  \/ \E k \in DOMAIN cache : Expire(k)
  \/ \E r \in Req : Finish(r)

SpecLengths == InitLengths /\ [][NextLengths]_vars

(***************************************************************************)
(* Two transcript requests for one video whose languages and kinds differ, *)
(* against an upstream that answers well.                                  *)
(***************************************************************************)
KindBodies ==
  { Body(FALSE, <<>>, VideoId1, "en", "asr"),
    Body(FALSE, <<>>, VideoId1, "en", "manual"),
    Body(FALSE, <<>>, VideoId1, "en", "c"),
    Body(FALSE, <<>>, VideoId1, "a:b", "c"),
    Body(FALSE, <<>>, VideoId1, "a", "b:c") }

InitKinds ==
  /\ kvBound = TRUE
  /\ cache = <<>>
  /\ req = <<Idle, Idle>>

NextKinds ==
  \/ \E r \in Req, body \in KindBodies : Receive(r, "transcript", body)
  \/ \E r \in Req : CacheGet(r, FALSE)
  \/ \E r \in Req : TranscriptFetched(r, GoodAnswer)
  \/ \E r \in Req, lands \in BOOLEAN : PutSettles(r, lands)
  \/ \E k \in DOMAIN cache : Expire(k)
  \/ \E r \in Req : Finish(r)

SpecKinds == InitKinds /\ [][NextKinds]_vars

(***************************************************************************)
(* Calls of the encoder.  A call is a record of req: its arguments, and    *)
(* what the call made of them once it has run.                             *)
(***************************************************************************)
Repeat(code, n) == [i \in 1..n |-> code]

EncoderVideoIds == { Codes("dQw4w9WgXcQ"), Codes("a_B-c_D-e_0") }
EncoderSources == { <<>>, Codes("asr"), Repeat(120, 100), Repeat(120, 127) }
EncoderLangs ==
  { Codes("en"), Codes("pt-BR"), <<233>>, <<20013>>,
    Repeat(122, 60), Repeat(122, 100), Repeat(122, 127) }

Call(videoId, source, lang, lastFlag) ==
  [pc |-> "encode", videoId |-> videoId, source |-> source, lang |-> lang,
   lastFlag |-> lastFlag, token |-> Returned(Undefined)]

InitEncoder ==
  /\ kvBound = TRUE
  /\ cache = <<>>
  /\ \E videoId \in EncoderVideoIds, source \in EncoderSources, lang \in EncoderLangs,
        lastFlag \in BOOLEAN :
        req = <<Call(videoId, source, lang, lastFlag)>>

Encode(r) ==
  /\ req[r].pc = "encode"
  /\ req' = [req EXCEPT ![r].pc = "encoded",
                         ![r].token = buildTranscriptToken(req[r].videoId, req[r].source,
                                                           req[r].lang, req[r].lastFlag)]
  /\ UNCHANGED <<kvBound, cache>>

NextEncoder == \E r \in Req : Encode(r)

SpecEncoder == InitEncoder /\ [][NextEncoder]_vars

(***************************************************************************)
(* Properties.                                                             *)
(***************************************************************************)
IsInvocation(e) == e = 0
IsSleep(e) == e # 0

\* the events of an executor run in which the operation threw k times and
\* was then invoked once more
RECURSIVE ExpectedLog(_)
ExpectedLog(k) ==
  IF k = 0 THEN <<0>> ELSE ExpectedLog(k - 1) \o <<1000 * Pow2(k - 1), 0>>

\* what the computation of a request made of the last upstream response
ComputeOutcome(l) ==
  IF l.endpoint = "languages" THEN DiscoveryAttempt(l.upstream)
  ELSE getTranscript(LangOption(l), l.upstream)

OperationReturned(l) == l.upstream.from = "page" /\ ~DiscoveryAttempt(l.upstream).threw
OperationThrew(l) == l.upstream.from = "page" /\ DiscoveryAttempt(l.upstream).threw

\* C1: when the operation throws on its first k invocations (k in 0..3) and
\* returns on the next one, retryWithBackoff returns that value, the operation
\* was invoked exactly k+1 times, and the sleeps are 1000, 2000, ... ,
\* 1000*2^(k-1), each between two invocations and none after the last one.
RetrySucceedsAfterFailures ==
  \A r \in Req :
    LET l == req[r]
    IN  OperationReturned(l) =>
          /\ l.calls.threw \in 0..3
          /\ l.pc = "done"
          /\ l.result = DiscoveryAttempt(l.upstream).value
          /\ l.resp.success /\ l.resp.data = l.result
          /\ l.calls.http = l.calls.threw + 1
          /\ Len(SelectSeq(l.log, IsInvocation)) = l.calls.threw + 1
          /\ l.log = ExpectedLog(l.calls.threw)

RetrySucceedsAfterFailuresWitness ==
  \E r \in Req :
    /\ OperationReturned(req[r])
    /\ req[r].calls.threw = 3
    /\ req[r].result.type = "array"
    /\ SelectSeq(req[r].log, IsSleep) = <<1000, 2000, 4000>>

\* C2: the operation is invoked at most 4 times; when all 4 invocations throw,
\* the failure of the 4th is re-raised after exactly the sleeps 1000, 2000,
\* 4000, with no sleep after the last invocation; and an invocation that
\* throws before the 4th is followed by a retry whatever the error was.
RetryExhaustion ==
  \A r \in Req :
    LET l == req[r]
    IN  /\ l.calls.http <= 4
        /\ Len(SelectSeq(l.log, IsInvocation)) <= 4
        /\ l.calls.threw = 4 =>
             /\ l.pc = "done"
             /\ l.resp = Failure(500, DiscoveryAttempt(l.upstream).error)
             /\ l.log = <<0, 1000, 0, 2000, 0, 4000, 0>>
             /\ l.calls.http = 4
        /\ (OperationThrew(l) /\ l.calls.threw < 4) =>
             /\ l.pc \in {"sleep", "fetch"}
             /\ l.resp = NoResponse
             /\ Len(SelectSeq(l.log, IsSleep)) = l.calls.threw

RetryExhaustionWitness ==
  \E r \in Req :
    /\ req[r].calls.threw = 4
    /\ req[r].pc = "done"
    /\ req[r].resp.error = CaptionsParseError
    /\ ~req[r].resp.success

\* C3: a page without the captions marker makes discovery return the absent
\* result on the attempt that fetched it, with no sleep after it (one fetch
\* and no sleep at all when it is the first page); and any value the
\* operation returns is what the executor returns, on that attempt.
LacksMarker(p) == p.from = "page" /\ p.arrived /\ p.ok /\ p.captions = "absent"

SentinelNotRetried ==
  \A r \in Req :
    LET l == req[r]
    IN  /\ LacksMarker(l.upstream) =>
             /\ l.pc = "done"
             /\ l.result = Undefined
             /\ l.resp = Success(Undefined, "miss")
             /\ l.log[Len(l.log)] = 0
             /\ Len(SelectSeq(l.log, IsSleep)) = l.calls.threw
             /\ l.calls.http = l.calls.threw + 1
             /\ l.calls.threw = 0 => (l.calls.http = 1 /\ l.log = <<0>>)
        /\ (l.endpoint = "languages" /\ l.pc = "done" /\ l.calls.put = 1) =>
             /\ ~DiscoveryAttempt(l.upstream).threw
             /\ l.result = DiscoveryAttempt(l.upstream).value
             /\ l.log[Len(l.log)] = 0

SentinelNotRetriedWitness ==
  \E r \in Req :
    /\ LacksMarker(req[r].upstream)
    /\ req[r].calls.threw = 0
    /\ req[r].calls.http = 1
    /\ req[r].pc = "done"

\* C4: an attempt that gets a non-success status, a captions fragment that is
\* not JSON, or a fragment without the track list fails and is retried with
\* backoff; discovery fails to its caller only after 4 failed attempts; an
\* attempt that finds the track list makes its language list the result.
FailingPage(p) ==
  /\ p.from = "page"
  /\ p.arrived
  /\ \/ ~p.ok
     \/ p.captions = "malformed"
     \/ p.captions = "parsed" /\ ~p.hasTracks

DiscoveryFailuresRetried ==
  \A r \in Req :
    LET l == req[r]
    IN  /\ FailingPage(l.upstream) =>
             /\ l.calls.threw >= 1
             /\ l.calls.threw < 4 => (l.pc \in {"sleep", "fetch"} /\ l.resp = NoResponse)
             /\ l.pc = "sleep" => l.log[Len(l.log)] = 1000 * Pow2(l.calls.threw - 1)
             /\ l.calls.threw = 4 => (l.pc = "done" /\ ~l.resp.success)
        /\ (l.endpoint = "languages" /\ l.pc = "done" /\ l.calls.compute = 1
              /\ ~l.resp.success) =>
             (l.calls.threw = 4 /\ l.calls.http = 4)
        /\ (l.upstream.from = "page" /\ l.upstream.arrived /\ l.upstream.ok
              /\ l.upstream.captions = "parsed" /\ l.upstream.hasTracks) =>
             /\ l.pc = "done"
             /\ l.result = Array(LanguageOptions(l.upstream.tracks))
             /\ l.resp = Success(l.result, "miss")

DiscoveryFailuresRetriedWitness ==
  \E r \in Req :
    /\ req[r].pc = "done"
    /\ req[r].resp.success
    /\ req[r].calls.threw = 2
    /\ req[r].lastError = TracksMissingError
    /\ req[r].result.type = "array"

\* C5: when the get returns a stored value, the response carries exactly that
\* value, tagged "hit", and the request computes nothing, calls no upstream
\* and writes nothing to the cache.
HitAnswersFromStore ==
  \A r \in Req :
    (/\ req[r].pc = "get"
     /\ req'[r].pc # "get"
     /\ req'[r].got # "unavailable"
     /\ Lookup(req[r].cacheKey).type = "json") =>
       /\ req'[r].got = "hit"
       /\ req'[r].pc = "done"
       /\ req'[r].resp = Success(Lookup(req[r].cacheKey).of, "hit")
       /\ cache' = cache

HitDoesNothingElse ==
  \A r \in Req :
    req[r].got = "hit" =>
      /\ req[r].pc = "done"
      /\ req[r].resp.success /\ req[r].resp.cache = "hit"
      /\ req[r].calls.compute = 0 /\ req[r].calls.http = 0 /\ req[r].calls.put = 0
      /\ req[r].put = NoPut
      /\ req[r].upstream = NoUpstream

CacheHit == []HitDoesNothingElse /\ [][HitAnswersFromStore]_vars

CacheHitWitness ==
  \E r \in Req :
    /\ req[r].got = "hit"
    /\ req[r].endpoint = "transcript"
    /\ req[r].resp.data.type = "object"
    /\ req[r].resp.cache = "hit"

\* C6: when the get fails, the request still computes, once, and a successful
\* computation is answered with its result tagged "miss"; an error response
\* comes only from the computation failing.
GetFailed(l) == l.got \in {"unavailable", "corrupt"}

ReadFailureFallsThrough ==
  \A r \in Req :
    LET l == req[r]
    IN  GetFailed(l) =>
          /\ l.calls.compute = 1
          /\ l.pc # "done" => l.resp = NoResponse
          /\ l.pc = "done" =>
               IF ComputeOutcome(l).threw
               THEN /\ ~l.resp.success
                    /\ l.resp.error = ComputeOutcome(l).error
                    /\ l.endpoint = "languages" => l.calls.threw = 4
               ELSE l.resp = Success(ComputeOutcome(l).value, "miss")

ReadFailureFallsThroughWitness ==
  \E r \in Req :
    /\ req[r].got = "unavailable"
    /\ req[r].pc = "done"
    /\ req[r].resp.success
    /\ req[r].resp.cache = "miss"
    /\ req[r].calls.compute = 1

\* C7: a request with a resolvable identifier gets an error response only
\* when its computation failed, whatever the store does.
Resolvable(body) == ~body.malformed /\ extractVideoId(VideoUrl(body)) # NoId

CacheFailuresNeverSurfaced ==
  \A r \in Req :
    LET l == req[r]
    IN  (l.pc = "done" /\ Resolvable(l.body) /\ ~l.resp.success) =>
          (l.calls.compute = 1 /\ ComputeOutcome(l).threw)

\* C8: a request that finds no entry and computes a value is answered "miss"
\* and starts a write; a request for the same key that arrives after that
\* write has landed, and reads while the entry is there, is answered "hit"
\* with the payload of the miss response.
MissThenHit ==
  /\ \A r \in Req :
       (req[r].got = "miss" /\ req[r].pc = "done" /\ ~ComputeOutcome(req[r]).threw) =>
         (req[r].resp.cache = "miss" /\ req[r].put.status # "none")
  /\ \A a \in Req : \A b \in Req :
       (/\ a # b
        /\ req[a].got = "miss"
        /\ req[a].pc = "done" /\ req[a].resp.success /\ req[a].resp.cache = "miss"
        /\ req[a].put.status = "stored"
        /\ req[b].pc = "done"
        /\ a \in req[b].after
        /\ req[b].cacheKey = req[a].cacheKey
        /\ req[b].got \in {"hit", "corrupt"}) =>
          /\ req[b].resp.success
          /\ req[b].resp.cache = "hit"
          /\ req[b].resp.data = req[a].resp.data

\* C9: after a successful computation the request issues exactly one put, with
\* its own key, the JSON text of the result and a TTL of 3600 seconds, and the
\* response is there as soon as the put is issued, whatever becomes of the put.
ComputeSucceeded(l) == l.pc = "done" /\ l.calls.compute = 1 /\ ~ComputeOutcome(l).threw

DetachedCacheWrite ==
  \A r \in Req :
    LET l == req[r]
    IN  /\ l.calls.put <= 1
        /\ ComputeSucceeded(l) =>
             /\ l.calls.put = 1
             /\ l.put.status \in {"pending", "stored", "failed"}
             /\ l.put.key = CacheKey(l.endpoint, l.videoId, l.language, l.kind)
             /\ l.put.value = JSONstringify(ComputeOutcome(l).value)
             /\ l.put.expirationTtl = 3600
             /\ l.resp = Success(ComputeOutcome(l).value, "miss")
        /\ l.calls.put = 1 => ComputeSucceeded(l)
        /\ l.put.status # "none" => l.calls.put = 1

DetachedCacheWriteWitness ==
  \E r \in Req :
    /\ req[r].pc = "done"
    /\ req[r].resp.success
    /\ req[r].resp.cache = "miss"
    /\ req[r].put.status = "pending"

\* C10: a request without an identifier, or with one the resolver rejects, is
\* answered 400 and reads no cache, writes no cache and calls no upstream.
NoIdentifier(body) == VideoUrl(body) = <<>> \/ extractVideoId(VideoUrl(body)) = NoId

ValidationStopsPipeline ==
  \A r \in Req :
    LET l == req[r]
    IN  (l.pc = "done" /\ NoIdentifier(l.body)) =>
          /\ l.resp.status = 400
          /\ ~l.resp.success
          /\ l.calls = [get |-> 0, compute |-> 0, http |-> 0, threw |-> 0, put |-> 0]

FromTranscript(l) == l.upstream.from = "transcript"

\* C11: when the transcript endpoint answers with a non-success status, the
\* request fails after its one POST, and not with one of the three failures
\* that getTranscript derives from the body of the answer.
TranscriptHttpFailure ==
  \A r \in Req :
    LET l == req[r]
    IN  (FromTranscript(l) /\ l.upstream.arrived /\ ~l.upstream.ok /\ l.pc = "done") =>
          /\ ~l.resp.success
          /\ l.resp.error \notin {NoTranscriptFound, StructureChanged, NoTextSegments}
          /\ l.calls.http = 1
          /\ l.put = NoPut

\* C12: an answer without the segment list fails with the not-found error
\* (404) when its first action targets the transcript panel, and with the
\* parse error (500) otherwise; neither case returns a result.
NoSegmentList(l) ==
  FromTranscript(l) /\ l.upstream.arrived /\ l.upstream.json /\ ~l.upstream.hasSegments

AbsentSegmentList ==
  \A r \in Req :
    LET l == req[r]
    IN  NoSegmentList(l) =>
          /\ l.pc = "done"
          /\ l.result = Undefined
          /\ l.put = NoPut
          /\ l.calls.http = 1
          /\ IF l.upstream.hasActions /\ l.upstream.targetId = TranscriptPanel
             THEN l.resp = Failure(404, NoTranscriptFound)
             ELSE l.resp = Failure(500, StructureChanged)

AbsentSegmentListWitness ==
  \E r \in Req :
    /\ NoSegmentList(req[r])
    /\ req[r].upstream.ok
    /\ req[r].upstream.hasActions
    /\ req[r].upstream.targetId = "engagement-panel-comments"
    /\ req[r].resp.status = 500

\* C13: parts holds, in their order, exactly the raw segments with both timing
\* fields, a text run, a normalized text that is not empty and an end that is
\* not before the start; when the list is there and none survives, the
\* request fails with the no-text error (404) and no result.
Survives(seg) ==
  /\ seg.hasRenderer
  /\ seg.startMs.kind = "string" /\ seg.endMs.kind = "string"
  /\ seg.hasRuns /\ \E i \in DOMAIN seg.runs : seg.runs[i].isText
  /\ CollapseSpaces(Trim(RunsText(seg.runs))) # <<>>
  /\ LET start == parseInt(seg.startMs.chars)
         end == parseInt(seg.endMs.chars)
     IN  start.kind # "nan" /\ end.kind # "nan" /\ (Less(start, end) \/ start = end)

HasSegmentList(l) ==
  FromTranscript(l) /\ l.upstream.arrived /\ l.upstream.json /\ l.upstream.hasSegments

SegmentFiltering ==
  \A r \in Req :
    LET l == req[r]
        kept == SelectSeq(l.upstream.segments, Survives)
    IN  HasSegmentList(l) =>
          /\ l.pc = "done"
          /\ IF kept = <<>>
             THEN l.resp = Failure(404, NoTextSegments) /\ l.result = Undefined /\ l.put = NoPut
             ELSE /\ l.resp.success
                  /\ l.result.parts = [i \in 1..Len(kept) |-> Part(kept[i])]
                  /\ l.resp.data.parts = l.result.parts

SegmentFilteringWitness ==
  \E r \in Req :
    /\ HasSegmentList(req[r])
    /\ req[r].resp.success
    /\ Len(req[r].upstream.segments) = 3
    /\ Len(req[r].result.parts) = 2
    /\ req[r].result.parts[2].text = <<"o", "k">>

\* C14: the transcript of every result a computation returns, and of every
\* result served from the cache, is the texts of its parts joined by single
\* spaces and trimmed; and what the store gives back for the text that was
\* put is the result that was serialized.
TranscriptComputed(l) ==
  l.endpoint = "transcript" /\ l.pc = "done" /\ l.calls.compute = 1 /\ l.resp.success

TranscriptEquality ==
  \A r \in Req :
    LET l == req[r]
    IN  /\ TranscriptComputed(l) =>
             /\ l.result.transcript = Trim(JoinTexts(l.result.parts))
             /\ KVget(StoredText(l.put.value)) = Returned(l.result)
        /\ (l.endpoint = "transcript" /\ l.got = "hit") =>
             l.resp.data.transcript = Trim(JoinTexts(l.resp.data.parts))

\* C19: every part of a computed result has a start and a duration that are
\* numbers of seconds, not negative, in thousandths of the raw milliseconds,
\* and a text that is not empty and has no white space at its ends or
\* repeated.
Normalized(text) ==
  /\ text # <<>>
  /\ text[1] \notin WhiteSpace /\ text[Len(text)] \notin WhiteSpace
  /\ \A i \in 1..(Len(text) - 1) : ~(text[i] \in WhiteSpace /\ text[i + 1] \in WhiteSpace)

SegmentValues ==
  \A r \in Req :
    LET l == req[r]
    IN  TranscriptComputed(l) =>
          \A i \in DOMAIN l.result.parts :
            LET part == l.result.parts[i]
            IN  /\ part.start.kind = "finite" /\ part.start.per = 1000 /\ part.start.ms >= 0
                /\ part.duration.kind = "finite" /\ part.duration.per = 1000
                /\ part.duration.ms >= 0
                /\ Normalized(part.text)

\* C15: discovery lists the names of the tracks with the name "English"
\* first, then the other names that contain "English", then the remaining
\* names in their original order; Spanish, English, English (auto-generated)
\* comes out as English, English (auto-generated), Spanish.
NameRank(name) == IF name = English THEN 0 ELSE IF Includes(name, English) THEN 1 ELSE 2
IsRemainder(name) == NameRank(name) = 2
Occurrences(names, name) == Cardinality({i \in DOMAIN names : names[i] = name})

TracksFound(l) ==
  /\ l.upstream.from = "page" /\ l.upstream.arrived /\ l.upstream.ok
  /\ l.upstream.captions = "parsed" /\ l.upstream.hasTracks

LanguageOrdering ==
  \A r \in Req :
    LET l == req[r]
        names == [i \in DOMAIN l.upstream.tracks |-> l.upstream.tracks[i].name]
        listed == [i \in DOMAIN l.result.items |-> l.result.items[i].language]
    IN  TracksFound(l) =>
          /\ l.pc = "done" /\ l.result.type = "array"
          /\ Len(listed) = Len(names)
          /\ \A i \in DOMAIN names : Occurrences(listed, names[i]) = Occurrences(names, names[i])
          /\ \A i \in DOMAIN listed : \A j \in DOMAIN listed :
               i < j => NameRank(listed[i]) <= NameRank(listed[j])
          /\ SelectSeq(listed, IsRemainder) = SelectSeq(names, IsRemainder)
          /\ names = <<Spanish, English, EnglishAuto>> => listed = <<English, EnglishAuto, Spanish>>

LanguageOrderingWitness ==
  \E r \in Req :
    /\ TracksFound(req[r])
    /\ req[r].pc = "done"
    /\ [i \in DOMAIN req[r].upstream.tracks |-> req[r].upstream.tracks[i].name]
         = <<Spanish, English, EnglishAuto>>
    /\ [i \in DOMAIN req[r].result.items |-> req[r].result.items[i].language]
         = <<English, EnglishAuto, Spanish>>

\* C16: a token of 11 identifier characters resolves to itself; a watch,
\* short, embed or shorts link with an identifier resolves to that
\* identifier; any other input resolves to null, which the handler answers
\* with 400 and not with an error of its own; and whatever is resolved is a
\* token of 11 identifier characters.
IsToken(s) == Len(s) = 11 /\ \A i \in 1..11 : s[i] \in IdChars

\* a link of a known shape with the token where the identifier goes, and no
\* identifier character right after it
IsLinkWith(url, token) ==
  \E prefix \in LinkPrefixes, suffix \in Suffixes : url = prefix \o token \o suffix

\* an input that is neither a token nor has a known link shape in front of
\* eleven identifier characters
IsOther(url) ==
  /\ ~IsToken(url)
  /\ \A prefix \in LinkPrefixes, token \in GoodTokens \cup {LongToken}, suffix \in Suffixes :
       url # prefix \o token \o suffix

Resolved(l) == IF l.pc = "done" /\ l.resp = Failure(400, InvalidVideo) THEN NoId ELSE l.videoId

Omits(body) == body.language = "" /\ body.kind = ""
GivesDefaults(body) == body.language = "en" /\ body.kind = "asr"

KeyScheme(l) ==
  IF l.endpoint = "languages"
  THEN l.cacheKey = "languages:dQw4w9WgXcQ"
  ELSE /\ l.language = (IF l.body.language = "" THEN "en" ELSE l.body.language)
       /\ l.kind = (IF l.body.kind = "" THEN "asr" ELSE l.body.kind)
       /\ l.cacheKey = "transcript:dQw4w9WgXcQ:" \o l.language \o ":" \o l.kind
       /\ (Omits(l.body) \/ GivesDefaults(l.body)) => l.cacheKey = "transcript:dQw4w9WgXcQ:en:asr"
       /\ l.result # Undefined =>
            (l.result.languageCode = l.language /\ l.result.kind = l.kind)

SharesEntry(a, b) ==
  /\ req[a].endpoint = "transcript" /\ req[b].endpoint = "transcript"
  /\ (Omits(req[a].body) /\ GivesDefaults(req[b].body))
       \/ (GivesDefaults(req[a].body) /\ Omits(req[b].body))
  /\ req[a].put.status = "stored"
  /\ a \in req[b].after
  /\ req[b].pc = "done"

DefaultsAndKeys ==
  /\ \A r \in Req :
       req[r].pc \in {"get", "fetch", "post", "sleep"} \/ req[r].calls.get = 1 =>
         /\ KeyScheme(req[r])
         /\ req[r].put # NoPut => req[r].put.key = req[r].cacheKey
  /\ \A a \in Req : \A b \in Req :
       SharesEntry(a, b) =>
         /\ req[a].put.key = req[b].cacheKey
         /\ req[b].got \in {"hit", "miss"}
         /\ req[b].got = "hit" => req[b].resp = Success(req[a].result, "hit")
         /\ req[b].got = "miss" => req[b].cacheKey \notin DOMAIN cache \/ req[b].put.status = "stored"

DefaultsAndKeysWitness ==
  \E a \in Req : \E b \in Req :
    /\ SharesEntry(a, b)
    /\ Omits(req[a].body)
    /\ GivesDefaults(req[b].body)
    /\ req[b].got = "hit"
    /\ req[b].resp.data = req[a].result

\* C18: two requests for one key that both read a miss both compute, both
\* issue their own put and both answer "miss"; no step of a request waits
\* for another request; and a put that lands leaves its own value in the
\* store, so the entry is that of the put that landed last.
BothMissed(a, b) ==
  /\ a # b
  /\ req[a].cacheKey = req[b].cacheKey
  /\ req[a].got = "miss" /\ req[b].got = "miss"

MissedAlone(l) ==
  /\ l.calls.compute = 1
  /\ l.calls.http >= 1
  /\ l.pc = "done" =>
       IF ComputeOutcome(l).threw THEN ~l.resp.success
       ELSE /\ l.resp = Success(ComputeOutcome(l).value, "miss")
            /\ l.calls.put = 1
            /\ l.put.key = l.cacheKey
            /\ l.put.value = JSONstringify(ComputeOutcome(l).value)

NeverWaits(r) ==
  /\ req[r].pc = "get" => ENABLED CacheGet(r, FALSE)
  /\ req[r].pc = "fetch" => ENABLED (\E page \in Pages : PageFetched(r, page))
  /\ req[r].pc = "sleep" => ENABLED WakeUp(r)
  /\ req[r].pc = "post" => ENABLED (\E answer \in Answers : TranscriptFetched(r, answer))
  /\ req[r].put.status = "pending" => ENABLED PutSettles(r, TRUE)

MissesNotShared ==
  /\ \A a \in Req : \A b \in Req : BothMissed(a, b) => (MissedAlone(req[a]) /\ MissedAlone(req[b]))
  /\ \A r \in Req : NeverWaits(r)

LastPutWins ==
  \A r \in Req :
    (req[r].put.status = "pending" /\ req'[r].put.status = "stored") =>
      /\ req[r].put.key \in DOMAIN cache'
      /\ cache'[req[r].put.key] = StoredText(req[r].put.value)
      /\ \A k \in DOMAIN cache \ {req[r].put.key} : k \in DOMAIN cache' /\ cache'[k] = cache[k]

ConcurrentMisses == []MissesNotShared /\ [][LastPutWins]_vars

ConcurrentMissesWitness ==
  \E a \in Req : \E b \in Req :
    /\ BothMissed(a, b)
    /\ req[a].pc = "done" /\ req[b].pc = "done"
    /\ req[a].resp.success /\ req[b].resp.success
    /\ req[a].resp.cache = "miss" /\ req[b].resp.cache = "miss"
    /\ req[a].put.status = "stored" /\ req[b].put.status = "stored"
    /\ req[a].calls.http = 1 /\ req[b].calls.http = 4
    /\ cache[req[a].cacheKey] = StoredText(req[b].put.value)

\* C23: while a languages request sleeps between discovery attempts, a new
\* request can arrive, and every other request in flight can take its next
\* step (read the cache, have its upstream call answered, wake up, have its
\* put settle); the steps of the others leave the sleeper where it is, and
\* the sleeper's wake-up changes no other request.
Sleeping(l) == l.endpoint = "languages" /\ l.pc = "sleep"

CanArrive == ENABLED (\E r \in Req, endpoint \in Endpoints, body \in Bodies : Receive(r, endpoint, body))

OthersProceed ==
  \A a \in Req :
    Sleeping(req[a]) =>
      /\ (\E b \in Req : req[b].pc = "idle") => CanArrive
      /\ \A b \in Req \ {a} : NeverWaits(b)

SleeperUntouched ==
  \A a \in Req :
    (Sleeping(req[a]) /\ req'[a] # req[a]) =>
      \/ /\ req'[a] = [req[a] EXCEPT !.pc = "fetch", !.attempt = @ + 1, !.log = Append(@, 0),
                                      !.calls.http = @ + 1]
         /\ \A b \in Req \ {a} : req'[b] = req[b]
         /\ cache' = cache
      \/ req'[a] = [req[a] EXCEPT !.after = req'[a].after]

SleepsAreLocal == []OthersProceed /\ [][SleeperUntouched]_vars

SleepsAreLocalWitness ==
  \E a \in Req : \E b \in Req :
    /\ a # b
    /\ Sleeping(req[a])
    /\ req[a].calls.threw = 1
    /\ req[b].pc = "done"
    /\ req[b].resp = Success(req[b].result, "miss")
    /\ req[b].calls.compute = 1
    /\ req[b].put.status = "stored"

\* C24: a request whose computation fails (discovery throwing on its last
\* attempt, or getTranscript throwing) issues no put, and the step in which it
\* fails leaves the store as it was; the store changes only when the put of
\* a request that computed lands or an entry expires; and a request that
\* reads a key without an entry computes.
ComputeFailed(l) == l.pc = "done" /\ l.calls.compute = 1 /\ ~l.resp.success

NoPutAfterFailure ==
  \A r \in Req :
    ComputeFailed(req[r]) =>
      /\ req[r].calls.put = 0
      /\ req[r].put = NoPut

FailureKeepsStore ==
  /\ \A r \in Req :
       (~ComputeFailed(req[r]) /\ ComputeFailed(req'[r])) => cache' = cache
  /\ cache' # cache =>
       \/ \E r \in Req :
            /\ req[r].pc = "done" /\ req[r].resp.success
            /\ req[r].put.status = "pending" /\ req'[r].put.status = "stored"
            /\ \A k \in DOMAIN cache \ {req[r].put.key} :
                 k \in DOMAIN cache' /\ cache'[k] = cache[k]
       \/ \E k \in DOMAIN cache : cache' = [j \in DOMAIN cache \ {k} |-> cache[j]]

MissesAgain ==
  \A r \in Req :
    (req[r].pc = "get" /\ req'[r].pc # "get" /\ req[r].cacheKey \notin DOMAIN cache) =>
      /\ req'[r].got \in {"miss", "unavailable"}
      /\ req'[r].calls.compute = 1
      /\ req'[r].calls.http = 1

FailedComputeLeavesCache ==
  []NoPutAfterFailure /\ [][FailureKeepsStore]_vars /\ [][MissesAgain]_vars

FailedComputeLeavesCacheWitness ==
  \E r \in Req :
    /\ ComputeFailed(req[r])
    /\ req[r].got = "miss"
    /\ req[r].endpoint = "languages"
    /\ req[r].calls.http = MAX_RETRIES + 1
    /\ req[r].cacheKey \notin DOMAIN cache

\* C25: two transcript requests that differ in videoId, language or kind
\* have different cache keys, and a hit on the transcript endpoint answers
\* with a transcript computed for the language and the kind of the request.
Keyed(l) == l.endpoint = "transcript" /\ l.cacheKey # ""

Triple(l) == <<l.videoId, l.language, l.kind>>

NoCrossServing ==
  /\ \A a \in Req : \A b \in Req :
       (Keyed(req[a]) /\ Keyed(req[b]) /\ Triple(req[a]) # Triple(req[b])) =>
         req[a].cacheKey # req[b].cacheKey
  /\ \A r \in Req :
       (Keyed(req[r]) /\ req[r].got = "hit") =>
         /\ req[r].resp.data.languageCode = req[r].language
         /\ req[r].resp.data.kind = req[r].kind

\* C26: for every list of caption tracks, also one in which two tracks have
\* the same display name, the result of discovery is a reordering of the
\* records of the tracks: one record per track with the name, the
\* languageCode and the kind of that track, "manual" when it has no kind.
RecordOf(track) ==
  [language |-> track.name, languageCode |-> track.languageCode,
   kind |-> IF track.kind = "" THEN "manual" ELSE track.kind]

OneRecordPerTrack ==
  \A r \in Req :
    LET l == req[r]
        records == [i \in DOMAIN l.upstream.tracks |-> RecordOf(l.upstream.tracks[i])]
    IN  (TracksFound(l) /\ l.pc = "done") =>
          /\ l.result.type = "array"
          /\ Len(l.result.items) = Len(records)
          /\ \A i \in DOMAIN records :
               Occurrences(l.result.items, records[i]) = Occurrences(records, records[i])

\* C27: when every cache get and every upstream call of a request settles,
\* the request is answered, with one response of status 200, 400, 404 or
\* 500 that never changes; its steps come in the order validation, cache
\* get, computation, put and response; and discovery makes at most 4 page
\* fetches and sleeps at most 3 times.
Sleeps(l) == Cardinality({i \in DOMAIN l.log : IsSleep(l.log[i])})

StepsInOrder ==
  \A r \in Req :
    LET l == req[r]
    IN  /\ l.calls.get <= 1 /\ l.calls.compute <= 1 /\ l.calls.put <= 1
        /\ l.calls.get = 1 => l.videoId # NoId
        /\ l.calls.compute = 1 => (l.calls.get = 1 /\ l.got # "none")
        /\ l.calls.http >= 1 => l.calls.compute = 1
        /\ l.calls.put = 1 => (l.calls.compute = 1 /\ l.pc = "done" /\ l.resp.success)
        /\ l.pc = "done" <=> l.resp # NoResponse
        /\ l.pc = "done" => l.resp.status \in {200, 400, 404, 500}
        /\ l.endpoint = "languages" => (l.calls.http <= 4 /\ Sleeps(l) <= 3)

Successors(pc) ==
  IF pc = "idle" THEN {"get", "done"}
  ELSE IF pc = "get" THEN {"fetch", "post", "done"}
  ELSE IF pc = "fetch" THEN {"sleep", "done"}
  ELSE IF pc = "sleep" THEN {"fetch"}
  ELSE IF pc = "post" THEN {"done"}
  ELSE {"idle"}

OneResponse ==
  \A r \in Req :
    /\ req'[r].pc # req[r].pc => req'[r].pc \in Successors(req[r].pc)
    /\ (req[r].pc = "done" /\ req'[r].pc = "done") => req'[r].resp = req[r].resp

Answered(r) == req[r].pc \in {"get", "fetch", "sleep", "post"} ~> req[r].pc = "done"

EveryRequestAnswered ==
  /\ []StepsInOrder
  /\ [][OneResponse]_vars
  /\ \A r \in 1..MaxRequests : Answered(r)

EveryRequestAnsweredWitness ==
  \E r \in Req :
    /\ req[r].endpoint = "languages"
    /\ req[r].pc = "done"
    /\ req[r].resp.status = 200 /\ req[r].resp.cache = "miss"
    /\ req[r].calls.http = 4 /\ Sleeps(req[r]) = 3
    /\ req[r].put.status = "pending"

\* Reading a token back: the percent escapes, the base64 text, and a field
\* as a tag byte, a length byte and that many value bytes.
ByteAt(bytes, i) == IF i \in DOMAIN bytes THEN bytes[i] ELSE 0

Rest(bytes, from) == IF from \in DOMAIN bytes THEN SubSeq(bytes, from, Len(bytes)) ELSE <<>>

HexValue(c) == IF c >= 65 THEN c - 55 ELSE c - 48

Unescape(chars) ==
  LET places == [i \in 1..Len(chars) |-> i]
      Starts(i) == ~((i > 1 /\ chars[i - 1] = 37) \/ (i > 2 /\ chars[i - 2] = 37))
      kept == SelectSeq(places, Starts)
  IN  [k \in 1..Len(kept) |->
         IF chars[kept[k]] = 37
         THEN 16 * HexValue(ByteAt(chars, kept[k] + 1)) + HexValue(ByteAt(chars, kept[k] + 2))
         ELSE chars[kept[k]]]

SextetOf(c) ==
  IF c >= 97 THEN c - 97 + 26
  ELSE IF c >= 65 THEN c - 65
  ELSE IF c >= 48 /\ c <= 57 THEN c - 48 + 52
  ELSE IF c = 43 THEN 62
  ELSE IF c = 47 THEN 63
  ELSE 0

Unbase64(chars) ==
  LET pads == Cardinality({i \in DOMAIN chars : chars[i] = 61})
      byte(j) ==
        LET g == (j - 1) \div 3
            k == (j - 1) % 3
            v1 == SextetOf(ByteAt(chars, 4 * g + 1))
            v2 == SextetOf(ByteAt(chars, 4 * g + 2))
            v3 == SextetOf(ByteAt(chars, 4 * g + 3))
            v4 == SextetOf(ByteAt(chars, 4 * g + 4))
        IN  IF k = 0 THEN v1 * 4 + (v2 \div 16)
            ELSE IF k = 1 THEN (v2 % 16) * 16 + (v3 \div 4)
            ELSE (v3 % 4) * 64 + v4
  IN  [j \in 1..(3 * (Len(chars) \div 4) - pads) |-> byte(j)]

ReadField(bytes, at) ==
  LET length == ByteAt(bytes, at + 1)
  IN  [tag |-> ByteAt(bytes, at),
       value |-> IF at + 1 + length <= Len(bytes)
                 THEN SubSeq(bytes, at + 2, at + 1 + length) ELSE <<>>,
       next |-> at + 2 + length]

\* the token of a call decodes to its arguments, field by field
Recovers(call) ==
  /\ ~call.token.threw
  /\ LET outer == Unbase64(Unescape(call.token.value))
         first == ReadField(outer, 1)
         second == ReadField(outer, first.next)
         inner == Unbase64(second.value)
         kind == ReadField(inner, 1)
         code == ReadField(inner, kind.next)
     IN  /\ first.tag = 10 /\ first.value = call.videoId
         /\ second.tag = 18 /\ second.value = Base64(inner)
         /\ kind.tag = 10 /\ kind.value = call.source
         /\ code.tag = 18 /\ code.value = call.lang
         /\ Rest(inner, code.next) = <<26, 0>>
         /\ Rest(outer, second.next) =
              <<24, 1, 42, 51>> \o PanelName
                \o <<48, 1, 56, 1, 64, IF call.lastFlag THEN 1 ELSE 0>>

Bytes(value) == \A i \in DOMAIN value : value[i] <= 255

ShortValues(call) ==
  /\ Bytes(call.videoId) /\ Bytes(call.source) /\ Bytes(call.lang)
  /\ Len(call.videoId) < 128 /\ Len(call.source) < 128 /\ Len(call.lang) < 128

\* the base64 text of the inner blob is itself a value of the outer blob
InnerTextLength(call) == 4 * ((Len(call.source) + Len(call.lang) + 6 + 2) \div 3)

\* C20 (as stated): for every videoId, kind and languageCode shorter than 128
\* bytes, the token decodes, field by field (tag byte, length byte, value
\* bytes, in the fixed order), to the videoId, the base64 inner blob, the
\* kind and the languageCode.
EncoderLayoutAsStated ==
  \A r \in Req :
    (req[r].pc = "encoded" /\ ShortValues(req[r])) => Recovers(req[r])

\* C20 (amended): the same, for the calls whose base64 inner blob is at most
\* 255 characters long, so that its length fits the one length byte.
EncoderLayout ==
  \A r \in Req :
    (req[r].pc = "encoded" /\ ShortValues(req[r]) /\ InnerTextLength(req[r]) <= 255) =>
      Recovers(req[r])

EncoderLayoutWitness ==
  \E r \in Req :
    /\ req[r].pc = "encoded"
    /\ req[r].source = Codes("asr")
    /\ Len(req[r].lang) = 127
    /\ InnerTextLength(req[r]) = 184
    /\ Recovers(req[r])

\* the lengths of the values the encoder is given for a request, and of the
\* base64 inner blob
EncodedLengths(l) ==
  { Len(l.videoId), Len(Source(l.kind)), Len(l.language),
    InnerTextLength([source |-> Source(l.kind), lang |-> l.language]) }

OverLong(l) == \E length \in EncodedLengths(l) : length >= 128

\* C21: a transcript request one of whose encoded values (videoId, kind,
\* languageCode or the base64 inner blob) is 128 bytes or longer fails in the
\* encoder: nothing is posted to the transcript endpoint and the request is
\* answered with an error.
EncoderLengthPrecondition ==
  \A r \in Req :
    (req[r].endpoint = "transcript" /\ req[r].got # "none" /\ req[r].got # "hit"
       /\ OverLong(req[r])) =>
      /\ req[r].pc = "done"
      /\ req[r].calls.http = 0
      /\ ~req[r].resp.success

\* the request has posted its parameter to the transcript endpoint
Posted(l) == l.endpoint = "transcript" /\ l.params # <<>>

\* the kind field of the inner blob of a request parameter
InnerKind(params) ==
  LET outer == Unbase64(Unescape(params))
      second == ReadField(outer, ReadField(outer, 1).next)
  IN  ReadField(Unbase64(second.value), 1).value

\* C22: the request parameter carries the kind "asr" exactly when the kind
\* of the language option is "asr", and the empty string for every other
\* kind; for one videoId and languageCode two kinds other than "asr" give
\* the same parameter, and it differs from the parameter of kind "asr".
KindSelection ==
  /\ \A r \in Req :
       Posted(req[r]) =>
         InnerKind(req[r].params) = (IF req[r].kind = "asr" THEN Codes("asr") ELSE <<>>)
  /\ \A a, b \in Req :
       (Posted(req[a]) /\ Posted(req[b]) /\ req[a].videoId = req[b].videoId
          /\ req[a].language = req[b].language) =>
         /\ (req[a].kind # "asr" /\ req[b].kind # "asr") => req[a].params = req[b].params
         /\ (req[a].kind = "asr" /\ req[b].kind # "asr") => req[a].params # req[b].params

KindSelectionWitness ==
  \E a, b \in Req :
    /\ Posted(req[a]) /\ Posted(req[b])
    /\ req[a].language = "en" /\ req[b].language = "en"
    /\ req[a].kind = "manual" /\ req[b].kind = "c"
    /\ req[a].params = req[b].params
    /\ InnerKind(req[a].params) = <<>>

=============================================================================
